---------------------------- MODULE Spec2Model ----------------------------
(***************************************************************************)
(* react-human-time: parseDate, calculateRelativeTime, formatRelativeTime, *)
(* _getDynamicInterval, the hook useLiveRelativeTime and the class         *)
(* component LiveRelativeTime of src/src/index.tsx.                        *)
(*                                                                         *)
(* Numbers.  A JavaScript time value (milliseconds since the epoch) is the *)
(* pair [s, ms] with 0 <= ms < 1000, standing for 1000*s + ms milliseconds;*)
(* the same pair stands for the real number s + ms/1000 when the code      *)
(* divides a millisecond difference by 1000 (diffInSeconds).  Pairs are    *)
(* ordered lexicographically, which is the numeric order.  NaN is a value  *)
(* of its own.  A numeric dateInput is a decimal numeral (sign, integer    *)
(* digits, fraction digits) so that Number.prototype.toString and its      *)
(* length are what they are in the code; the host's floating-point error   *)
(* on n * 1000 is not modelled (the sampled numbers are exact in binary).  *)
(* Strings are sequences of one-character strings.                         *)
(***************************************************************************)
EXTENDS Integers, Sequences, FiniteSets, TLC

VARIABLES
    now,          \* the host clock: new Date().getTime(), a time value
    tz,           \* the host's local time zone, minutes east of UTC
    argDateInput, \* the dateInput argument of the pure functions
    argOptions,   \* the options argument of formatRelativeTime
    ret,          \* the last call of a pure function and its result
    comp,         \* the LiveRelativeTime instance: props, state.timeString, timer
    hook,         \* the useLiveRelativeTime call site: arguments, timeString, cleanup
    timers,       \* the host's table of live interval timers
    steps,        \* how many times the clock has been advanced
    updates,      \* how many times the parent has re-rendered the binding
    ev,           \* the last thing that happened to a binding
    hist          \* what has happened to the binding since its mount

(***************************************************************************)
(* Values of the host language.                                            *)
(***************************************************************************)
Null == [kind |-> "null"]
Undefined == [kind |-> "undefined"]
NaN == [nan |-> TRUE]

T(s, ms) == [s |-> s, ms |-> ms]
IsNaN(t) == t = NaN

\* a - b on time values
Sub(a, b) ==
    IF IsNaN(a) \/ IsNaN(b) THEN NaN
    ELSE LET m == a.ms - b.ms
         IN  T(a.s - b.s + (m \div 1000), m % 1000)

\* t + ms milliseconds
AddMs(t, ms) ==
    LET m == t.ms + ms
    IN  T(t.s + (m \div 1000), m % 1000)

Neg(t) == IF t.ms = 0 THEN T(-t.s, 0) ELSE T(-t.s - 1, 1000 - t.ms)

\* Math.abs
MathAbs(t) == IF IsNaN(t) THEN NaN ELSE IF t.s < 0 THEN Neg(t) ELSE t

\* a < b, a <= b, a > b on numbers; every comparison with NaN is false
Lt(a, b) == ~IsNaN(a) /\ ~IsNaN(b) /\ (a.s < b.s \/ (a.s = b.s /\ a.ms < b.ms))
Le(a, b) == ~IsNaN(a) /\ ~IsNaN(b) /\ (a.s < b.s \/ (a.s = b.s /\ a.ms <= b.ms))
Gt(a, b) == Lt(b, a)

\* the integer n as a number of seconds
Secs(n) == T(n, 0)


(***************************************************************************)
(* Numeric inputs: decimal numerals.  ip are the digits of the integer     *)
(* part (no leading zero unless the part is 0), fp the digits of the       *)
(* fraction (no trailing zero), both most significant first.               *)
(***************************************************************************)
Dec(neg, ip, fp) == [neg |-> neg, ip |-> ip, fp |-> fp]
NumNaN == [special |-> "NaN"]
NumInfinity == [special |-> "Infinity"]
IsSpecial(n) == n \in {NumNaN, NumInfinity}

DigitChars == <<"0", "1", "2", "3", "4", "5", "6", "7", "8", "9">>
IsDigit(c) == \E i \in 1..10 : DigitChars[i] = c
DigitVal(c) == (CHOOSE i \in 1..10 : DigitChars[i] = c) - 1
Chars(ds) == [i \in 1..Len(ds) |-> DigitChars[ds[i] + 1]]

RECURSIVE IntOf(_)
\* the value of a sequence of digits
IntOf(ds) == IF ds = <<>> THEN 0
             ELSE 10 * IntOf(SubSeq(ds, 1, Len(ds) - 1)) + ds[Len(ds)]

\* Math.abs(n).toString(), in the range where toString writes plain decimals
AbsToString(n) ==
    IF n = NumNaN THEN <<"N", "a", "N">>
    ELSE IF n = NumInfinity THEN <<"I", "n", "f", "i", "n", "i", "t", "y">>
    ELSE Chars(n.ip) \o (IF n.fp = <<>> THEN <<>> ELSE <<".">> \o Chars(n.fp))

\* the digits of trunc(abs(n) * 1000) and of trunc(abs(n) * 1)
ScaledDigits(n, factor) ==
    IF factor = 1000
    THEN n.ip \o [i \in 1..3 |-> IF i <= Len(n.fp) THEN n.fp[i] ELSE 0]
    ELSE n.ip

RECURSIVE DigitsGt(_, _)
\* a > b for two digit sequences of the same length
DigitsGt(a, b) ==
    IF a = <<>> THEN FALSE
    ELSE IF Head(a) # Head(b) THEN Head(a) > Head(b)
    ELSE DigitsGt(Tail(a), Tail(b))

TimeClipLimit == <<8, 6, 4, 0, 0, 0, 0, 0, 0, 0, 0, 0, 0, 0, 0, 0>>

\* new Date(n * factor): TimeClip truncates to whole milliseconds; a value
\* that is not finite, or beyond 8.64e15 ms, gives an Invalid Date.
DateOfNumber(n, factor) ==
    IF IsSpecial(n) THEN NaN
    ELSE LET ds  == ScaledDigits(n, factor)
             k   == Len(ds)
             lead == IF k > 3 THEN SubSeq(ds, 1, k - 3) ELSE <<>>
             low  == IF k > 3 THEN SubSeq(ds, k - 2, k) ELSE ds
         IN  IF k > 16 \/ (k = 16 /\ DigitsGt(ds, TimeClipLimit)) THEN NaN
             ELSE IF n.neg THEN Neg(T(IntOf(lead), IntOf(low)))
                  ELSE T(IntOf(lead), IntOf(low))

(***************************************************************************)
(* The host's Date parser on the strings the model hands it: the ISO       *)
(* date-time form YYYY-MM-DDTHH:mm:ss (local time when no offset follows,  *)
(* UTC when Z follows) and the ISO date-only form YYYY-MM-DD (UTC).  Any   *)
(* other string of the samples is one the host does not recognise.         *)
(***************************************************************************)
AllDigits(cs) == \A i \in 1..Len(cs) : IsDigit(cs[i])
NumOf(cs) == IntOf([i \in 1..Len(cs) |-> DigitVal(cs[i])])

IsLeap(y) == (y % 4 = 0 /\ y % 100 # 0) \/ y % 400 = 0
DaysInMonth(y, m) ==
    IF m = 2 THEN (IF IsLeap(y) THEN 29 ELSE 28)
    ELSE IF m \in {4, 6, 9, 11} THEN 30 ELSE 31

\* days from 1970-01-01 to the civil date y-m-d
DaysFromCivil(y, m, d) ==
    LET yy  == IF m <= 2 THEN y - 1 ELSE y
        era == yy \div 400
        yoe == yy - era * 400
        mp  == IF m > 2 THEN m - 3 ELSE m + 9
        doy == (153 * mp + 2) \div 5 + d - 1
        doe == yoe * 365 + yoe \div 4 - yoe \div 100 + doy
    IN  era * 146097 + doe - 719468

IsIsoDateTime(cs) ==
    /\ Len(cs) \in {19, 20}
    /\ AllDigits(SubSeq(cs, 1, 4)) /\ cs[5] = "-"
    /\ AllDigits(SubSeq(cs, 6, 7)) /\ cs[8] = "-"
    /\ AllDigits(SubSeq(cs, 9, 10)) /\ cs[11] = "T"
    /\ AllDigits(SubSeq(cs, 12, 13)) /\ cs[14] = ":"
    /\ AllDigits(SubSeq(cs, 15, 16)) /\ cs[17] = ":"
    /\ AllDigits(SubSeq(cs, 18, 19))
    /\ Len(cs) = 20 => cs[20] = "Z"

IsIsoDate(cs) ==
    /\ Len(cs) = 10
    /\ AllDigits(SubSeq(cs, 1, 4)) /\ cs[5] = "-"
    /\ AllDigits(SubSeq(cs, 6, 7)) /\ cs[8] = "-"
    /\ AllDigits(SubSeq(cs, 9, 10))

\* new Date(string).getTime()
HostParse(cs, zone) ==
    IF ~IsIsoDateTime(cs) /\ ~IsIsoDate(cs) THEN NaN
    ELSE LET full == IsIsoDateTime(cs)
             y  == NumOf(SubSeq(cs, 1, 4))
             mo == NumOf(SubSeq(cs, 6, 7))
             d  == NumOf(SubSeq(cs, 9, 10))
             h  == IF full THEN NumOf(SubSeq(cs, 12, 13)) ELSE 0
             mi == IF full THEN NumOf(SubSeq(cs, 15, 16)) ELSE 0
             se == IF full THEN NumOf(SubSeq(cs, 18, 19)) ELSE 0
             off == IF full /\ Len(cs) = 19 THEN zone ELSE 0
         IN  IF mo \notin 1..12 \/ h > 23 \/ mi > 59 \/ se > 59 THEN NaN
             ELSE IF d \notin 1..DaysInMonth(y, mo) THEN NaN
             ELSE T(DaysFromCivil(y, mo, d) * 86400 + h * 3600 + (mi - off) * 60 + se, 0)


(***************************************************************************)
(* Inputs of parseDate: the DateInput union and what a caller can pass in  *)
(* its place.                                                              *)
(***************************************************************************)
DateObj(t) == [kind |-> "date", time |-> t]
NumberInput(n) == [kind |-> "number", num |-> n]
StringInput(cs) == [kind |-> "string", chars |-> cs]
ObjectInput == [kind |-> "object"]
BooleanInput == [kind |-> "boolean"]

Separators == {"-", "/"}

\* /^(\d{4})[-/](\d{2})[-/](\d{2})$/
yyyy_mm_dd(cs) ==
    /\ Len(cs) = 10
    /\ AllDigits(SubSeq(cs, 1, 4)) /\ cs[5] \in Separators
    /\ AllDigits(SubSeq(cs, 6, 7)) /\ cs[8] \in Separators
    /\ AllDigits(SubSeq(cs, 9, 10))

\* /^(\d{2})[-/](\d{2})[-/](\d{4})$/
mm_dd_yyyy(cs) ==
    /\ Len(cs) = 10
    /\ AllDigits(SubSeq(cs, 1, 2)) /\ cs[3] \in Separators
    /\ AllDigits(SubSeq(cs, 4, 5)) /\ cs[6] \in Separators
    /\ AllDigits(SubSeq(cs, 7, 10))

Midnight == <<"T", "0", "0", ":", "0", "0", ":", "0", "0">>

\* isoString without the time of day, which the host reads as UTC midnight
isoString_dateOnly(cs) ==
    IF yyyy_mm_dd(cs)
    THEN SubSeq(cs, 1, 4) \o <<"-">> \o SubSeq(cs, 6, 7) \o <<"-">> \o SubSeq(cs, 9, 10)
    ELSE IF mm_dd_yyyy(cs)
    THEN SubSeq(cs, 7, 10) \o <<"-">> \o SubSeq(cs, 1, 2) \o <<"-">> \o SubSeq(cs, 4, 5)
    ELSE <<>>

\* isoString after the two regular expressions; the code tests it by
\* truthiness, and <<>> stands for its initial null
isoString(cs) ==
    IF yyyy_mm_dd(cs)
    THEN SubSeq(cs, 1, 4) \o <<"-">> \o SubSeq(cs, 6, 7) \o <<"-">>
             \o SubSeq(cs, 9, 10) \o Midnight
    ELSE IF mm_dd_yyyy(cs)
    THEN SubSeq(cs, 7, 10) \o <<"-">> \o SubSeq(cs, 1, 2) \o <<"-">>
             \o SubSeq(cs, 4, 5) \o Midnight
    ELSE <<>>

\* isoString || dateInput: what new Date(...) is given
stringToParse(cs) == IF isoString(cs) # <<>> THEN isoString(cs) ELSE cs

\* Math.abs(dateInput).toString().length < 13 ? 1000 : 1
numberFactor(n) == IF Len(AbsToString(n)) < 13 THEN 1000 ELSE 1

\* parseDate that copies a Date argument to whole seconds
parseDate_dateCopied(dateInput, zone) ==
    IF dateInput.kind \in {"null", "undefined"} THEN Null
    ELSE IF dateInput.kind = "date"
    THEN (IF IsNaN(dateInput.time) THEN dateInput ELSE DateObj(T(dateInput.time.s, 0)))
    ELSE IF dateInput.kind = "number"
    THEN DateObj(DateOfNumber(dateInput.num, numberFactor(dateInput.num)))
    ELSE IF dateInput.kind = "string"
    THEN LET date == DateObj(HostParse(stringToParse(dateInput.chars), zone))
         IN  IF IsNaN(date.time) THEN Null ELSE date
    ELSE Null

\* parseDate without the final validation of a parsed string
parseDate_noValidation(dateInput, zone) ==
    IF dateInput.kind \in {"null", "undefined"} THEN Null
    ELSE IF dateInput.kind = "date" THEN dateInput
    ELSE IF dateInput.kind = "number"
    THEN DateObj(DateOfNumber(dateInput.num, numberFactor(dateInput.num)))
    ELSE IF dateInput.kind = "string"
    THEN DateObj(HostParse(stringToParse(dateInput.chars), zone))
    ELSE Null

parseDate(dateInput, zone) ==
    IF dateInput.kind \in {"null", "undefined"} THEN Null
    ELSE IF dateInput.kind = "date" THEN dateInput
    ELSE IF dateInput.kind = "number"
    THEN DateObj(DateOfNumber(dateInput.num, numberFactor(dateInput.num)))
    ELSE IF dateInput.kind = "string"
    THEN LET date == DateObj(HostParse(stringToParse(dateInput.chars), zone))
         IN  IF IsNaN(date.time) THEN Null ELSE date
    ELSE Null


(***************************************************************************)
(* calculateRelativeTime                                                   *)
(***************************************************************************)
\* the table with week and month exchanged
units_weekBeforeMonth == <<
    [unit |-> "year",   seconds |-> 31536000],
    [unit |-> "week",   seconds |-> 604800],
    [unit |-> "month",  seconds |-> 2592000],
    [unit |-> "day",    seconds |-> 86400],
    [unit |-> "hour",   seconds |-> 3600],
    [unit |-> "minute", seconds |-> 60],
    [unit |-> "second", seconds |-> 1] >>

units == <<
    [unit |-> "year",   seconds |-> 31536000],
    [unit |-> "month",  seconds |-> 2592000],
    [unit |-> "week",   seconds |-> 604800],
    [unit |-> "day",    seconds |-> 86400],
    [unit |-> "hour",   seconds |-> 3600],
    [unit |-> "minute", seconds |-> 60],
    [unit |-> "second", seconds |-> 1] >>

\* Math.floor in the place of Math.round
MathRound_floor(diffInSeconds, seconds) == diffInSeconds.s \div seconds

\* Math.round of the magnitude of the quotient, the sign dropped
MathRound_magnitude(diffInSeconds, seconds) ==
    LET a == MathAbs(diffInSeconds)
        k == a.s \div seconds
        r == a.s % seconds
    IN  IF 2 * r + (2 * a.ms) \div 1000 >= seconds THEN k + 1 ELSE k

\* Math.round(diffInSeconds / seconds) for a number diffInSeconds = s + ms/1000:
\* the integer closest to the quotient, the one closer to +infinity when two
\* are equally close, that is floor(quotient + 1/2).  With s = k * seconds + r,
\* 0 <= r < seconds, the quotient is k + (r + ms/1000) / seconds.
MathRound(diffInSeconds, seconds) ==
    LET k == diffInSeconds.s \div seconds
        r == diffInSeconds.s % seconds
    IN  IF 2 * r + (2 * diffInSeconds.ms) \div 1000 >= seconds THEN k + 1 ELSE k

Parts(value, unit, diffInSeconds) ==
    [kind |-> "parts", value |-> value, unit |-> unit, diffInSeconds |-> diffInSeconds]

RECURSIVE unitsLoop(_, _)
\* for (const { unit, seconds } of units), from the i-th entry on
unitsLoop(i, diffInSeconds) ==
    IF i > Len(units) THEN Parts(0, "second", diffInSeconds)
    ELSE IF IsNaN(diffInSeconds) THEN unitsLoop(i + 1, diffInSeconds)
    ELSE LET value == MathRound(diffInSeconds, units[i].seconds)
         IN  IF (IF value < 0 THEN -value ELSE value) >= 1
             THEN Parts(value, units[i].unit, diffInSeconds)
             ELSE unitsLoop(i + 1, diffInSeconds)

\* calculateRelativeTime giving up on a date without a valid instant
calculateRelativeTime_date_validated(date, clock) ==
    IF date = Null \/ IsNaN(date.time) THEN Null
    ELSE unitsLoop(1, Sub(date.time, clock))

\* calculateRelativeTime from its date on
calculateRelativeTime_date(date, clock) ==
    IF date = Null THEN Null
    ELSE unitsLoop(1, Sub(date.time, clock))

calculateRelativeTime(dateInput, clock, zone) ==
    calculateRelativeTime_date(parseDate(dateInput, zone), clock)

(***************************************************************************)
(* formatRelativeTime.  The host's Intl formatters are left abstract: a    *)
(* formatted string is the record of what the formatter was built with and *)
(* what it was given.  Both constructors throw a RangeError on a locale    *)
(* tag that is not well formed, Intl.RelativeTimeFormat also on a style    *)
(* that is not one of its three.                                           *)
(***************************************************************************)
Num(v) == [kind |-> "number", v |-> v]
Str(x) == [kind |-> "string", v |-> x]
RangeError == [kind |-> "RangeError"]

Options(locale, style, numeric, threshold, absoluteFormatOptions) ==
    [locale |-> locale, style |-> style, numeric |-> numeric,
     threshold |-> threshold, absoluteFormatOptions |-> absoluteFormatOptions]

\* const { x = d } = options
Default(x, d) == IF x = Undefined THEN d ELSE x

WellFormedLocales == {"en", "es"}

\* the values Intl.RelativeTimeFormat accepts for its style option; any
\* other value, converted to a string, is a RangeError
RelativeTimeStyles == {"long", "short", "narrow"}

RelativeTimeFormat(locale, style, numeric, value, unit) ==
    IF locale.v \notin WellFormedLocales THEN RangeError
    ELSE IF style.kind # "string" \/ style.v \notin RelativeTimeStyles THEN RangeError
    ELSE [kind |-> "relative", locale |-> locale.v, style |-> style.v,
          numeric |-> numeric.v, value |-> value, unit |-> unit]

DateTimeFormat(locale, absoluteFormatOptions, date) ==
    IF locale.v \notin WellFormedLocales \/ IsNaN(date.time) THEN RangeError
    ELSE [kind |-> "absolute", locale |-> locale.v,
          options |-> absoluteFormatOptions, time |-> date.time]

\* threshold && Math.abs(diffInSeconds) > threshold
thresholdExceeded(threshold, diffInSeconds) ==
    /\ threshold.kind = "number"
    /\ threshold.v # 0
    /\ Gt(MathAbs(diffInSeconds), Secs(threshold.v))

\* formatRelativeTime from its parts on
formatRelativeTime_parts(dateInput, options, parts, zone) ==
    LET locale  == Default(options.locale, Str("en"))
        style   == Default(options.style, Str("long"))
        numeric == Default(options.numeric, Str("auto"))
    IN  IF parts = Null THEN Null
        ELSE IF thresholdExceeded(options.threshold, parts.diffInSeconds)
        THEN LET date == parseDate(dateInput, zone)
             IN  IF date # Null
                 THEN DateTimeFormat(locale, options.absoluteFormatOptions, date)
                 ELSE Null
        ELSE RelativeTimeFormat(locale, style, numeric, parts.value, parts.unit)

formatRelativeTime(dateInput, options, clock, zone) ==
    formatRelativeTime_parts(dateInput, options,
                             calculateRelativeTime(dateInput, clock, zone), zone)

(***************************************************************************)
(* The earlier formatRelativeTime, one function that parses, measures,     *)
(* decides on the threshold, builds the relative formatter and then walks  *)
(* its own unit table.  Its parseDate is line for line the present one.    *)
(***************************************************************************)
earlier_units == <<
    [unit |-> "year",   seconds |-> 31536000],
    [unit |-> "month",  seconds |-> 2592000],
    [unit |-> "week",   seconds |-> 604800],
    [unit |-> "day",    seconds |-> 86400],
    [unit |-> "hour",   seconds |-> 3600],
    [unit |-> "minute", seconds |-> 60],
    [unit |-> "second", seconds |-> 1] >>

RECURSIVE earlier_unitsLoop(_, _, _, _, _)
\* for (const { unit, seconds } of units) return rtf.format(value, unit), from
\* the i-th entry on, and rtf.format(0, 'second') after the last one; rtf was
\* built with locale, style and numeric
earlier_unitsLoop(i, locale, style, numeric, diffInSeconds) ==
    IF i > Len(earlier_units)
    THEN RelativeTimeFormat(locale, style, numeric, 0, "second")
    ELSE IF IsNaN(diffInSeconds)
    THEN earlier_unitsLoop(i + 1, locale, style, numeric, diffInSeconds)
    ELSE IF MathRound(diffInSeconds, earlier_units[i].seconds) >= 1
            \/ MathRound(diffInSeconds, earlier_units[i].seconds) <= -1
    THEN RelativeTimeFormat(locale, style, numeric,
                            MathRound(diffInSeconds, earlier_units[i].seconds),
                            earlier_units[i].unit)
    ELSE earlier_unitsLoop(i + 1, locale, style, numeric, diffInSeconds)

\* the earlier formatRelativeTime from its date and diffInSeconds on
earlier_formatRelativeTime_date(date, options, diffInSeconds) ==
    IF /\ options.threshold.kind = "number"
       /\ options.threshold.v # 0
       /\ Gt(MathAbs(diffInSeconds), Secs(options.threshold.v))
    THEN DateTimeFormat(Default(options.locale, Str("en")),
                        options.absoluteFormatOptions, date)
    ELSE earlier_unitsLoop(1, Default(options.locale, Str("en")),
                           Default(options.style, Str("long")),
                           Default(options.numeric, Str("auto")), diffInSeconds)

earlier_formatRelativeTime(dateInput, options, clock, zone) ==
    IF parseDate(dateInput, zone) = Null THEN Null
    ELSE earlier_formatRelativeTime_date(parseDate(dateInput, zone), options,
                                         Sub(parseDate(dateInput, zone).time, clock))

\* the policy with its band limits included in the lower band
_getDynamicInterval_inclusive(diffInSeconds) ==
    LET absDiff == MathAbs(diffInSeconds)
    IN  IF Le(absDiff, Secs(60)) THEN 1000
        ELSE IF Le(absDiff, Secs(3600)) THEN 60 * 1000
        ELSE IF Le(absDiff, Secs(86400)) THEN 3600 * 1000
        ELSE -1

(***************************************************************************)
(* _getDynamicInterval: milliseconds until the next refresh, -1 for none   *)
(***************************************************************************)
_getDynamicInterval(diffInSeconds) ==
    LET absDiff == MathAbs(diffInSeconds)
    IN  IF Lt(absDiff, Secs(60)) THEN 1000
        ELSE IF Lt(absDiff, Secs(3600)) THEN 60 * 1000
        ELSE IF Lt(absDiff, Secs(86400)) THEN 3600 * 1000
        ELSE -1


(***************************************************************************)
(* The inputs the pure functions are called with.                          *)
(***************************************************************************)
\* a + b on time values
Add(a, b) == Sub(a, Neg(b))

OffsetSeconds ==
    {0, 1, 10, 30, 59, 60, 61, 90, 125, 300, 1800, 3599, 3600, 3601, 5400, 7200,
     43200, 86399, 86400, 90000, 172800, 302400, 604800, 1296000, 2592000,
     15768000, 31536000, 47304000, 63072000}

\* signed offsets from the clock, in seconds: whole ones and a few with a
\* fraction (0.5, -0.5, 1.5, -1.5, 29.5, -29.5, 59.999, -59.999)
DiffSamples ==
    {Secs(n) : n \in OffsetSeconds} \cup {Secs(-n) : n \in OffsetSeconds}
    \cup {T(0, 500), T(-1, 500), T(1, 500), T(-2, 500), T(29, 500), T(-30, 500),
          T(59, 999), T(-60, 1)}

DateSamples(clock) == {DateObj(Add(clock, d)) : d \in DiffSamples} \cup {DateObj(NaN)}

NumberSamples ==
    { Dec(FALSE, <<0>>, <<>>),                                  \* 0
      Dec(TRUE, <<5>>, <<>>),                                   \* -5
      Dec(FALSE, <<1, 7, 0, 0, 0, 0, 0, 0, 0, 0>>, <<>>),       \* 1700000000
      Dec(FALSE, <<1, 7, 5, 2, 8, 4, 1, 8, 7, 5>>, <<>>),       \* 1752841875
      Dec(FALSE, <<1, 7, 0, 0, 0, 0, 0, 0, 0, 0>>, <<5>>),      \* 1700000000.5
      Dec(FALSE, <<1, 7, 0, 0, 0, 0, 0, 0, 0, 0>>, <<2, 5>>),   \* 1700000000.25
      Dec(FALSE, <<1, 0, 0, 0, 0, 0, 0, 0, 0, 0, 0, 0, 0>>, <<>>),      \* 1000000000000
      Dec(FALSE, <<1, 7, 0, 0, 0, 0, 0, 0, 0, 0, 0, 0, 0>>, <<>>),      \* 1700000000000
      Dec(FALSE, <<1, 7, 5, 2, 8, 4, 1, 8, 6, 5, 5, 0, 0>>, <<>>),      \* 1752841865500
      Dec(FALSE, <<9, 0, 0, 0, 0, 0, 0, 0, 0, 0, 0, 0, 0, 0, 0, 0>>, <<>>), \* 9e15
      NumNaN, NumInfinity }

Years == {<<"2", "0", "2", "5">>}
TwoDigits == {<<"0", "7">>, <<"1", "8">>, <<"9", "9">>}

PatternStrings ==
    {y \o <<a>> \o m \o <<b>> \o d :
        y \in Years, a \in Separators, m \in TwoDigits, b \in Separators, d \in TwoDigits}
    \cup
    {m \o <<a>> \o d \o <<b>> \o y :
        y \in Years, a \in Separators, m \in TwoDigits, b \in Separators, d \in TwoDigits}

OtherStrings ==
    { <<>>,
      <<"n", "o", "t", " ", "a", " ", "d", "a", "t", "e">>,
      <<"i", "n", "v", "a", "l", "i", "d", "-", "d", "a", "t", "e">>,
      <<"2", "0", "2", "5", "-", "0", "7", "-", "1", "8", "T",
        "1", "0", ":", "0", "0", ":", "0", "0">>,
      <<"2", "0", "2", "5", "-", "0", "7", "-", "1", "8", "T",
        "1", "0", ":", "0", "0", ":", "0", "0", "Z">> }

StringSamples == PatternStrings \cup OtherStrings

Inputs(clock) ==
    DateSamples(clock)
    \cup {NumberInput(n) : n \in NumberSamples}
    \cup {StringInput(cs) : cs \in StringSamples}
    \cup {Null, Undefined, ObjectInput, BooleanInput}

NoOptions == Options(Undefined, Undefined, Undefined, Undefined, Undefined)

OptionSamples ==
    { Options(l, Undefined, Undefined, t, Undefined) :
        l \in {Undefined, Str("en_US")},
        t \in {Undefined, Num(0), Num(60), Num(86400), Num(-1)} }
    \cup {Options(Str("es"), Str("short"), Str("always"), Num(3600), Str("dateStyle: medium"))}

NowSamples == {T(1752841875, 0), T(1752841865, 500)}
Zones == {-300, 0, 330}

(***************************************************************************)
(* The host's interval timers.  A timer is a row of the table: its id, the *)
(* binding that armed it, its period in milliseconds, the time of its next *)
(* fire, and what its callback's closure captured (the hook's callback     *)
(* captures timestamp and options; the component's reads this.props).      *)
(***************************************************************************)
Timeout(id) == [kind |-> "Timeout", id |-> id]

Timer(id, owner, interval, due, timestamp, options) ==
    [id |-> id, owner |-> owner, interval |-> interval, due |-> due,
     timestamp |-> timestamp, options |-> options]

FreshId(tms) == CHOOSE n \in 1..(Cardinality(tms) + 1) : \A t \in tms : t.id # n

\* setInterval(callback, interval) called at time clock; its handle is
\* Timeout(FreshId(tms))
setInterval(tms, owner, interval, timestamp, options, clock) ==
    tms \cup {Timer(FreshId(tms), owner, interval, AddMs(clock, interval),
                    timestamp, options)}

\* a clearInterval that empties the table
clearInterval_all(tms, handle) == {}

clearInterval(tms, handle) == {t \in tms : t.id # handle.id}

\* what an operation on a binding leaves behind: the binding and the table
Result(self, tms) == [self |-> self, timers |-> tms]

(***************************************************************************)
(* class LiveRelativeTime                                                  *)
(***************************************************************************)
Props(timestamp, updateInterval, onEnd, options) ==
    [timestamp |-> timestamp, updateInterval |-> updateInterval, onEnd |-> onEnd,
     locale |-> options.locale, style |-> options.style, numeric |-> options.numeric,
     threshold |-> options.threshold,
     absoluteFormatOptions |-> options.absoluteFormatOptions]

Component(phase, props, timeString, timer) ==
    [phase |-> phase, props |-> props, timeString |-> timeString, timer |-> timer]

NoComponent == Component("none", Null, Null, Null)

\* constructor(props)
constructor(props, clock, zone) ==
    Component("mounted", props,
              formatRelativeTime(props.timestamp, props, clock, zone), Null)

\* a stopTimer that also drops the displayed string
stopTimer_reset(self, tms) ==
    IF self.timer # Null
    THEN Result([self EXCEPT !.timer = Null, !.timeString = Null],
                clearInterval(tms, self.timer))
    ELSE Result([self EXCEPT !.timeString = Null], tms)

stopTimer(self, tms) ==
    IF self.timer # Null
    THEN Result([self EXCEPT !.timer = Null], clearInterval(tms, self.timer))
    ELSE Result(self, tms)

\* updateInterval || _getDynamicInterval(...)
startTimer_interval_or(updateInterval, diffInSeconds) ==
    IF updateInterval \in {Null, Undefined} \/ updateInterval.v = 0
    THEN _getDynamicInterval(diffInSeconds)
    ELSE updateInterval.v

\* this.props.updateInterval ?? _getDynamicInterval(parts.diffInSeconds)
startTimer_interval(updateInterval, diffInSeconds) ==
    IF updateInterval \in {Null, Undefined}
    THEN _getDynamicInterval(diffInSeconds)
    ELSE updateInterval.v

\* if (interval > 0) this.timer = setInterval(..., interval)
startTimer_arm(stopped, interval, clock) ==
    IF interval > 0
    THEN Result([stopped.self EXCEPT !.timer = Timeout(FreshId(stopped.timers))],
                setInterval(stopped.timers, "LiveRelativeTime", interval,
                            Null, Null, clock))
    ELSE stopped

\* startTimer after this.stopTimer(), from its parts on
startTimer_parts(stopped, parts, clock) ==
    IF parts = Null THEN stopped
    ELSE startTimer_arm(
             stopped,
             startTimer_interval(stopped.self.props.updateInterval, parts.diffInSeconds),
             clock)

startTimer(self, tms, clock, zone) ==
    startTimer_parts(stopTimer(self, tms),
                     calculateRelativeTime(self.props.timestamp, clock, zone), clock)

componentDidMount(self, tms, clock, zone) == startTimer(self, tms, clock, zone)

\* a componentWillUnmount that leaves the timer running
componentWillUnmount_noStop(self, tms) == Result(self, tms)

componentWillUnmount(self, tms) == stopTimer(self, tms)

\* a componentDidUpdate that does nothing
componentDidUpdate_none(prevProps, self, clock, zone) == self

\* the instance after React has set this.props to the new props
componentDidUpdate(prevProps, self, clock, zone) ==
    IF prevProps.timestamp # self.props.timestamp
    THEN [self EXCEPT !.timeString =
              formatRelativeTime(self.props.timestamp, self.props, clock, zone)]
    ELSE self

\* what a callback leaves behind, and whether it called this.props.onEnd
Called(r, onEnd) == [self |-> r.self, timers |-> r.timers, onEnd |-> onEnd]

\* the callback without its this.stopTimer()
startTimer_callback_body_noStop(self, tms, newParts, timeString) ==
    IF newParts = Null
    THEN Called(Result(self, tms), FALSE)
    ELSE Called(Result([self EXCEPT !.timeString = timeString], tms),
                self.props.onEnd /\ Le(newParts.diffInSeconds, Secs(0)))

\* the callback without its test of newParts: an unparseable timestamp ends
\* the session like a timestamp that has been reached
startTimer_callback_body_endOnNull(self, tms, newParts, timeString) ==
    IF newParts = Null
    THEN Called(stopTimer([self EXCEPT !.timeString = timeString], tms),
                self.props.onEnd)
    ELSE IF self.props.onEnd /\ Le(newParts.diffInSeconds, Secs(0))
    THEN Called(stopTimer([self EXCEPT !.timeString = timeString], tms), TRUE)
    ELSE Called(Result([self EXCEPT !.timeString = timeString], tms), FALSE)

\* the callback startTimer hands to setInterval, given its newParts and the
\* string formatRelativeTime(this.props.timestamp, this.props) returns
startTimer_callback_body(self, tms, newParts, timeString) ==
    IF newParts = Null
    THEN Called(Result(self, tms), FALSE)
    ELSE IF self.props.onEnd /\ Le(newParts.diffInSeconds, Secs(0))
    THEN Called(stopTimer([self EXCEPT !.timeString = timeString], tms), TRUE)
    ELSE Called(Result([self EXCEPT !.timeString = timeString], tms), FALSE)

startTimer_callback(self, tms, clock, zone) ==
    startTimer_callback_body(
        self, tms,
        calculateRelativeTime(self.props.timestamp, clock, zone),
        formatRelativeTime(self.props.timestamp, self.props, clock, zone))

\* the props of render that are not options of formatRelativeTime, added to
\* the props of a session; style is the one key both share
RenderProps(props, children, prefix, suffix, className) ==
    [timestamp |-> props.timestamp, updateInterval |-> props.updateInterval,
     onEnd |-> props.onEnd, locale |-> props.locale, style |-> props.style,
     numeric |-> props.numeric, threshold |-> props.threshold,
     absoluteFormatOptions |-> props.absoluteFormatOptions,
     children |-> children, prefix |-> prefix, suffix |-> suffix,
     className |-> className]

\* a function passed as children, and a React.CSSProperties object
Function == [kind |-> "function"]
CSSProperties == [kind |-> "object", v |-> "color: red"]

\* children(timeString): the function is not looked into
Applied(timeString) == [kind |-> "children", timeString |-> timeString]

\* what React DOM shows of the children of an element: null and undefined
\* show nothing
Text(children) == SelectSeq(children, LAMBDA c : c \notin {Null, Undefined})

\* React DOM creating <span className style>children</span>: a style that is
\* neither absent nor an object makes it throw
span(className, style, children) ==
    IF style \notin {Null, Undefined} /\ style.kind # "object"
    THEN [kind |-> "Error"]
    ELSE [kind |-> "span", className |-> className, style |-> style,
          text |-> Text(children)]

\* render()
LiveRelativeTime_render(self) ==
    IF self.props.children.kind = "function"
    THEN Applied(self.timeString)
    ELSE span(self.props.className, self.props.style,
              <<self.props.prefix, self.timeString, self.props.suffix>>)

(***************************************************************************)
(* useLiveRelativeTime.  inline says that the calling component builds the *)
(* options object anew on every render (an object literal at the call      *)
(* site, or the default {}), so that no two renders pass the same object;  *)
(* otherwise the caller passes one object until its value changes.         *)
(* cleanup is the handle the effect's cleanup function will clear.         *)
(***************************************************************************)
Hook(phase, timestamp, options, inline, timeString, cleanup) ==
    [phase |-> phase, timestamp |-> timestamp, options |-> options,
     inline |-> inline, timeString |-> timeString, cleanup |-> cleanup]

NoHook == Hook("none", Null, NoOptions, FALSE, Null, Null)

\* React.useState(() => formatRelativeTime(timestamp, options)), first render
useState(timestamp, options, inline, clock, zone) ==
    Hook("mounted", timestamp, options, inline,
         formatRelativeTime(timestamp, options, clock, zone), Null)

\* the effect's dependencies compared with the previous render's: timestamp only
depsChanged_timestampOnly(prev, next) == prev.timestamp # next.timestamp

\* [timestamp, options] compared with the previous render's
depsChanged(prev, next) ==
    \/ prev.timestamp # next.timestamp
    \/ prev.options # next.options
    \/ next.inline

\* if (interval > 0) { const timer = setInterval(...); return cleanup }
useEffect_arm(self, tms, interval, clock) ==
    IF interval > 0
    THEN Result([self EXCEPT !.cleanup = Timeout(FreshId(tms))],
                setInterval(tms, "useLiveRelativeTime", interval,
                            self.timestamp, self.options, clock))
    ELSE Result([self EXCEPT !.cleanup = Null], tms)

\* the effect from its parts on
useEffect_parts(self, tms, parts, clock) ==
    IF parts = Null THEN Result([self EXCEPT !.cleanup = Null], tms)
    ELSE useEffect_arm(self, tms, _getDynamicInterval(parts.diffInSeconds), clock)

\* the body of the effect
useEffect(self, tms, clock, zone) ==
    useEffect_parts(self, tms, calculateRelativeTime(self.timestamp, clock, zone), clock)

\* the effect run on what its cleanup left
useEffect_after(cleaned, clock, zone) ==
    useEffect(cleaned.self, cleaned.timers, clock, zone)

\* an effect whose cleanup does nothing
useEffect_cleanup_none(self, tms) == Result(self, tms)

\* () => clearInterval(timer), when the effect returned one
useEffect_cleanup(self, tms) ==
    IF self.cleanup # Null
    THEN Result([self EXCEPT !.cleanup = Null], clearInterval(tms, self.cleanup))
    ELSE Result(self, tms)

\* a render after the first one: React keeps the state, and runs the cleanup
\* and the effect again when a dependency changed
render(prev, self, tms, clock, zone) ==
    IF depsChanged(prev, self)
    THEN useEffect_after(useEffect_cleanup(self, tms), clock, zone)
    ELSE Result(self, tms)

\* the callback the effect hands to setInterval, with the timestamp and the
\* options its closure captured; a state that changed makes React render the
\* calling component again, with the same timestamp and options value
setTimeString(self, tms, value, clock, zone) ==
    IF value # self.timeString
    THEN render(self, [self EXCEPT !.timeString = value], tms, clock, zone)
    ELSE Result(self, tms)

useEffect_callback(self, tms, timestamp, options, clock, zone) ==
    setTimeString(self, tms, formatRelativeTime(timestamp, options, clock, zone),
                  clock, zone)


(***************************************************************************)
(* Calls of the pure functions on the arguments drawn at the start.        *)
(***************************************************************************)
Call(fn, result) == [fn |-> fn, result |-> result]

bindingVars == <<comp, hook, timers, steps, updates, ev, hist>>

\* the history of a session: when the displayed string was last computed, how
\* often this.props.onEnd has been called, and whether the timestamp has been
\* in the future at some point
History(shownAt, onEndCalls, wasFuture) ==
    [shownAt |-> shownAt, onEndCalls |-> onEndCalls, wasFuture |-> wasFuture]

\* parts.diffInSeconds > 0, of the result of calculateRelativeTime
IsFuture(parts) == parts # Null /\ Gt(parts.diffInSeconds, Secs(0))

\* the last event: what happened, to which binding, and whether onEnd was
\* called.  A re-render is a "timestamp" event when it changed the timestamp,
\* an "options" event when it changed the hook's options, else an "update".
Event(type, owner, onEnd) == [type |-> type, owner |-> owner, onEnd |-> onEnd]
NoEvent == Event("none", "none", FALSE)

NoCall == Call("none", Null)

CallParseDate ==
    /\ ret' = Call("parseDate", parseDate(argDateInput, tz))
    /\ UNCHANGED <<now, tz, argDateInput, argOptions>>
    /\ UNCHANGED bindingVars

CallCalculateRelativeTime ==
    /\ ret' = Call("calculateRelativeTime", calculateRelativeTime(argDateInput, now, tz))
    /\ UNCHANGED <<now, tz, argDateInput, argOptions>>
    /\ UNCHANGED bindingVars

CallFormatRelativeTime ==
    /\ ret' = Call("formatRelativeTime", formatRelativeTime(argDateInput, argOptions, now, tz))
    /\ UNCHANGED <<now, tz, argDateInput, argOptions>>
    /\ UNCHANGED bindingVars

\* _getDynamicInterval on the offset of a parsed dateInput, as its callers do
CallGetDynamicInterval ==
    /\ calculateRelativeTime(argDateInput, now, tz) # Null
    /\ ret' = Call("_getDynamicInterval",
                   Num(_getDynamicInterval(calculateRelativeTime(argDateInput, now, tz).diffInSeconds)))
    /\ UNCHANGED <<now, tz, argDateInput, argOptions>>
    /\ UNCHANGED bindingVars

\* no binding exists
InitBindings ==
    /\ comp = NoComponent
    /\ hook = NoHook
    /\ timers = {}
    /\ steps = 0
    /\ updates = 0
    /\ ev = NoEvent
    /\ hist = History(Null, 0, FALSE)

InitPure ==
    /\ now \in NowSamples
    /\ tz \in Zones
    /\ argDateInput \in Inputs(now)
    /\ argOptions \in OptionSamples
    /\ ret = NoCall
    /\ InitBindings

NextPure ==
    \/ CallParseDate
    \/ CallCalculateRelativeTime
    \/ CallFormatRelativeTime
    \/ CallGetDynamicInterval

\* the earlier formatRelativeTime on the same arguments and the same clock
CallEarlierFormatRelativeTime ==
    /\ ret' = Call("earlier formatRelativeTime",
                   earlier_formatRelativeTime(argDateInput, argOptions, now, tz))
    /\ UNCHANGED <<now, tz, argDateInput, argOptions>>
    /\ UNCHANGED bindingVars

NextRefine ==
    \/ CallFormatRelativeTime
    \/ CallEarlierFormatRelativeTime

vars ==
    <<now, tz, argDateInput, argOptions, ret, comp, hook, timers, steps, updates, ev, hist>>
varsPure == vars
SpecPure == InitPure /\ [][NextPure]_varsPure
SpecRefine == InitPure /\ [][NextRefine]_varsPure


(***************************************************************************)
(* The bindings under a parent that mounts, re-renders and unmounts them,  *)
(* and a host clock whose timers fire when they are due.  A behaviour has  *)
(* one binding: the component or the hook.                                 *)
(***************************************************************************)
MaxSteps == 3
MaxUpdates == 1

MountTime == T(1752841875, 0)

\* timestamps the parent passes: instants at these offsets (in seconds) from
\* the time of the mount, and a string that does not parse
TimestampOffsets == {-10, 1, 61, -7200, -90000}

TimestampSamples ==
    {DateObj(Add(MountTime, Secs(k))) : k \in TimestampOffsets}
    \cup {StringInput(<<"n", "o", "t", " ", "a", " ", "d", "a", "t", "e">>)}

UpdateIntervalSamples == {Undefined, Num(1000), Num(5000), Num(0)}

BindingOptionSamples ==
    {Options(Undefined, Undefined, Undefined, t, Undefined) : t \in {Undefined, Num(3600)}}

PropsSamples ==
    {Props(ts, ui, oe, o) :
        ts \in TimestampSamples, ui \in UpdateIntervalSamples, oe \in BOOLEAN,
        o \in BindingOptionSamples}

\* how far the clock is moved in one step, in seconds
AdvanceSeconds == {1, 60, 3600}

pureVars == <<argDateInput, argOptions, ret>>

\* constructor and componentDidMount on the given props
MountWith(props) ==
    \E r \in {componentDidMount(constructor(props, now, tz), timers, now, tz)} :
        /\ comp' = r.self
        /\ timers' = r.timers
        /\ hist' = History(now, 0,
                           IsFuture(calculateRelativeTime(props.timestamp, now, tz)))

\* ReactDOM renders <LiveRelativeTime {...props} />: constructor, componentDidMount
Mount ==
    /\ comp.phase = "none" /\ hook.phase = "none"
    /\ \E props \in PropsSamples : MountWith(props)
    /\ ev' = Event("mount", "LiveRelativeTime", FALSE)
    /\ UNCHANGED <<now, tz, pureVars, hook, steps, updates>>

\* the parent renders the component again with one prop changed
Update ==
    /\ comp.phase = "mounted"
    /\ updates < MaxUpdates
    /\ \E props \in PropsSamples :
        /\ props # comp.props
        /\ \/ props = [comp.props EXCEPT !.timestamp = props.timestamp]
           \/ props = [comp.props EXCEPT !.updateInterval = props.updateInterval]
           \/ props = [comp.props EXCEPT !.onEnd = props.onEnd]
           \/ props = [comp.props EXCEPT !.threshold = props.threshold]
        /\ comp' = componentDidUpdate(comp.props, [comp EXCEPT !.props = props], now, tz)
        /\ hist' = [hist EXCEPT
                       !.shownAt = IF props.timestamp # comp.props.timestamp
                                   THEN now ELSE @,
                       !.wasFuture =
                           @ \/ IsFuture(calculateRelativeTime(props.timestamp, now, tz))]
        /\ ev' = Event(IF props.timestamp # comp.props.timestamp
                       THEN "timestamp" ELSE "update",
                       "LiveRelativeTime", FALSE)
    /\ updates' = updates + 1
    /\ UNCHANGED <<now, tz, pureVars, hook, timers, steps>>

Unmount ==
    /\ comp.phase = "mounted"
    /\ \E r \in {componentWillUnmount(comp, timers)} :
           /\ comp' = [r.self EXCEPT !.phase = "unmounted"]
           /\ timers' = r.timers
    /\ ev' = Event("unmount", "LiveRelativeTime", FALSE)
    /\ UNCHANGED <<now, tz, pureVars, hook, steps, updates, hist>>

\* the host moves a timer that fired to its next period
Rearm(tms, t) ==
    {IF u.id = t.id THEN [u EXCEPT !.due = AddMs(t.due, t.interval)] ELSE u : u \in tms}

\* the callback of timer t has run and the host has moved t to its next period
Fired(t) == startTimer_callback(comp, Rearm(timers, t), now, tz)

\* a due timer of the component fires
Fire ==
    \E t \in timers :
        /\ t.owner = "LiveRelativeTime"
        /\ Le(t.due, now)
        /\ \E r \in {Fired(t)} :
            /\ comp' = r.self
            /\ timers' = r.timers
            /\ ev' = Event("fire", "LiveRelativeTime", r.onEnd)
            /\ hist' = [hist EXCEPT
                           !.shownAt = IF r.self.timeString # Null THEN now ELSE @,
                           !.onEndCalls = IF r.onEnd THEN @ + 1 ELSE @]
        /\ UNCHANGED <<now, tz, pureVars, hook, steps, updates>>

\* a component calling useLiveRelativeTime(timestamp, options) is mounted:
\* first render, then the effect
HookMount ==
    /\ comp.phase = "none" /\ hook.phase = "none"
    /\ \E timestamp \in TimestampSamples, options \in BindingOptionSamples,
          inline \in BOOLEAN :
        \E r \in {useEffect(useState(timestamp, options, inline, now, tz),
                            timers, now, tz)} :
            /\ hook' = r.self
            /\ timers' = r.timers
    /\ hist' = History(now, 0, FALSE)
    /\ ev' = Event("mount", "useLiveRelativeTime", FALSE)
    /\ UNCHANGED <<now, tz, pureVars, comp, steps, updates>>

\* the calling component renders again, with the same or other arguments
HookRender ==
    /\ hook.phase = "mounted"
    /\ updates < MaxUpdates
    /\ \E timestamp \in TimestampSamples, options \in BindingOptionSamples :
        /\ timestamp = hook.timestamp \/ options = hook.options
        /\ \E r \in {render(hook, [hook EXCEPT !.timestamp = timestamp,
                                                 !.options = options],
                             timers, now, tz)} :
               /\ hook' = r.self
               /\ timers' = r.timers
        /\ ev' = Event(IF timestamp # hook.timestamp THEN "timestamp"
                       ELSE IF options # hook.options THEN "options" ELSE "update",
                       "useLiveRelativeTime", FALSE)
    /\ updates' = updates + 1
    /\ UNCHANGED <<now, tz, pureVars, comp, steps, hist>>

HookUnmount ==
    /\ hook.phase = "mounted"
    /\ \E r \in {useEffect_cleanup(hook, timers)} :
           /\ hook' = [r.self EXCEPT !.phase = "unmounted"]
           /\ timers' = r.timers
    /\ ev' = Event("unmount", "useLiveRelativeTime", FALSE)
    /\ UNCHANGED <<now, tz, pureVars, comp, steps, updates, hist>>

HookFired(t) ==
    useEffect_callback(hook, Rearm(timers, t), t.timestamp, t.options, now, tz)

\* a due timer of the hook fires
HookFire ==
    \E t \in timers :
        /\ t.owner = "useLiveRelativeTime"
        /\ Le(t.due, now)
        /\ \E r \in {HookFired(t)} :
            /\ hook' = r.self
            /\ timers' = r.timers
        /\ ev' = Event("fire", "useLiveRelativeTime", FALSE)
        /\ hist' = [hist EXCEPT !.shownAt = now]
        /\ UNCHANGED <<now, tz, pureVars, comp, steps, updates>>

\* the clock moves on, up to the next time a timer is due; a timer that is
\* due fires before the clock moves again
Advance ==
    /\ comp.phase # "none" \/ hook.phase # "none"
    /\ steps < MaxSteps
    /\ \A t \in timers : Lt(now, t.due)
    /\ \E dt \in AdvanceSeconds :
        LET target == Add(now, Secs(dt))
            early  == {t \in timers : Lt(t.due, target)}
        IN  now' = IF early = {} THEN target
                   ELSE (CHOOSE t \in early : \A u \in early : Le(t.due, u.due)).due
    /\ steps' = steps + 1
    /\ ev' = Event("advance", "none", FALSE)
    /\ UNCHANGED <<tz, pureVars, comp, hook, timers, updates, hist>>

Init ==
    /\ now = MountTime
    /\ tz = 0
    /\ argDateInput = Null
    /\ argOptions = NoOptions
    /\ ret = NoCall
    /\ InitBindings

Next ==
    \/ Mount
    \/ Update
    \/ Unmount
    \/ Fire
    \/ HookMount
    \/ HookRender
    \/ HookUnmount
    \/ HookFire
    \/ Advance

Spec == Init /\ [][Next]_vars


(***************************************************************************)
(* A LiveRelativeTime that stays mounted with an onEnd callback and a       *)
(* timestamp in the future, under a clock that never stops while a timer   *)
(* is armed: it moves to the moment the next timer is due, and the timer   *)
(* fires.  When no timer is armed nothing of the component can run any     *)
(* more, and the clock is followed until the timestamp has passed.         *)
(***************************************************************************)
LiveOffsets == {1, 61, 7200, 90000}

LivePropsSamples ==
    {Props(DateObj(Add(MountTime, Secs(k))), ui, TRUE, NoOptions) :
        k \in LiveOffsets, ui \in {Undefined, Num(60000)}}

MountLive ==
    /\ comp.phase = "none"
    /\ \E props \in LivePropsSamples : MountWith(props)
    /\ ev' = Event("mount", "LiveRelativeTime", FALSE)
    /\ UNCHANGED <<now, tz, pureVars, hook, steps, updates>>

AdvanceLive ==
    /\ comp.phase = "mounted"
    /\ \A t \in timers : Lt(now, t.due)
    /\ IF timers # {}
       THEN now' = (CHOOSE t \in timers : \A u \in timers : Le(t.due, u.due)).due
       ELSE /\ Le(now, comp.props.timestamp.time)
            /\ now' = AddMs(comp.props.timestamp.time, 1000)
    /\ ev' = Event("advance", "none", FALSE)
    /\ UNCHANGED <<tz, pureVars, comp, hook, timers, steps, updates, hist>>

NextLive ==
    \/ MountLive
    \/ Fire
    \/ AdvanceLive

SpecLive ==
    /\ Init
    /\ [][NextLive]_vars
    /\ WF_vars(MountLive)
    /\ WF_vars(Fire)
    /\ WF_vars(AdvanceLive)


(***************************************************************************)
(* What LiveRelativeTime renders: the component is mounted with render     *)
(* props, ret holds what its last render gave (or what the constructor     *)
(* threw), and a timer that fires renders it again.                        *)
(***************************************************************************)
RenderOffsets == {-10, 61, -90000}

RenderPropsSamples ==
    {RenderProps(Props(ts, Undefined, FALSE,
                       Options(Undefined, style, Undefined, Undefined, Undefined)),
                 children, prefix, suffix, className) :
        ts \in {DateObj(Add(MountTime, Secs(k))) : k \in RenderOffsets}
               \cup {StringInput(<<"n", "o", "t", " ", "a", " ", "d", "a", "t", "e">>)},
        style \in {Undefined, CSSProperties, Str("short")},
        children \in {Undefined, Function},
        prefix \in {Undefined, Str("Updated ")},
        suffix \in {Undefined, Str(" (live)")},
        className \in {Undefined, Str("time")}}

\* a render that threw: the component is not mounted
Thrown(props, error) ==
    /\ comp' = Component("thrown", props, Null, Null)
    /\ ret' = Call("throw", error)
    /\ UNCHANGED <<timers, hist>>

\* ReactDOM renders <LiveRelativeTime {...props} />: constructor, render,
\* the span created, componentDidMount
RenderMount ==
    /\ comp.phase = "none"
    /\ \E props \in RenderPropsSamples :
        \E c \in {constructor(props, now, tz)} :
            IF c.timeString = RangeError
            THEN Thrown(props, RangeError)
            ELSE \E out \in {LiveRelativeTime_render(c)} :
                    IF out.kind = "Error"
                    THEN Thrown(props, out)
                    ELSE MountWith(props) /\ ret' = Call("render", out)
    /\ ev' = Event("mount", "LiveRelativeTime", FALSE)
    /\ UNCHANGED <<now, tz, argDateInput, argOptions, hook, steps, updates>>

\* a due timer fires, and the state it set is rendered
RenderFire ==
    \E t \in timers :
        /\ t.owner = "LiveRelativeTime"
        /\ Le(t.due, now)
        /\ \E r \in {Fired(t)} :
            /\ comp' = r.self
            /\ timers' = r.timers
            /\ ret' = Call("render", LiveRelativeTime_render(r.self))
            /\ ev' = Event("fire", "LiveRelativeTime", r.onEnd)
            /\ hist' = [hist EXCEPT
                           !.shownAt = IF r.self.timeString # Null THEN now ELSE @,
                           !.onEndCalls = IF r.onEnd THEN @ + 1 ELSE @]
        /\ UNCHANGED <<now, tz, argDateInput, argOptions, hook, steps, updates>>

NextRender ==
    \/ RenderMount
    \/ RenderFire
    \/ Advance

SpecRender == Init /\ [][NextRender]_vars


(***************************************************************************)
(* The two bindings side by side: a parent mounts a LiveRelativeTime (no   *)
(* updateInterval, no onEnd) and a caller of useLiveRelativeTime with the  *)
(* same timestamp and options, and renders both again with the same new    *)
(* arguments; each binding's timer fires when it is due.                   *)
(***************************************************************************)
PairMount ==
    /\ comp.phase = "none" /\ hook.phase = "none"
    /\ \E timestamp \in TimestampSamples, options \in BindingOptionSamples,
          inline \in BOOLEAN :
        \E c \in {componentDidMount(
                      constructor(Props(timestamp, Undefined, FALSE, options), now, tz),
                      timers, now, tz)} :
            \E h \in {useEffect(useState(timestamp, options, inline, now, tz),
                                c.timers, now, tz)} :
                /\ comp' = c.self
                /\ hook' = h.self
                /\ timers' = h.timers
    /\ hist' = History(now, 0, FALSE)
    /\ ev' = Event("mount", "both", FALSE)
    /\ UNCHANGED <<now, tz, pureVars, steps, updates>>

\* the parent renders both again, with the same arguments or with a new
\* timestamp or new options
PairRender ==
    /\ comp.phase = "mounted" /\ hook.phase = "mounted"
    /\ updates < MaxUpdates
    /\ \E timestamp \in TimestampSamples, options \in BindingOptionSamples :
        /\ timestamp = hook.timestamp \/ options = hook.options
        /\ comp' = componentDidUpdate(
                       comp.props,
                       [comp EXCEPT !.props = Props(timestamp, Undefined, FALSE, options)],
                       now, tz)
        /\ \E h \in {render(hook, [hook EXCEPT !.timestamp = timestamp,
                                                 !.options = options],
                             timers, now, tz)} :
               /\ hook' = h.self
               /\ timers' = h.timers
        /\ ev' = Event(IF timestamp # hook.timestamp THEN "timestamp"
                       ELSE IF options # hook.options THEN "options" ELSE "update",
                       "both", FALSE)
    /\ updates' = updates + 1
    /\ UNCHANGED <<now, tz, pureVars, steps, hist>>

NextPair ==
    \/ PairMount
    \/ PairRender
    \/ Fire
    \/ HookFire
    \/ Advance

SpecPair == Init /\ [][NextPair]_vars


(***************************************************************************)
(* The timer callback of LiveRelativeTime in two steps.  this.setState may *)
(* render synchronously (a root whose updates outside React's own event    *)
(* handlers are not batched), and what is rendered may make the parent     *)
(* unmount the component before setState returns; the callback then goes   *)
(* on with its test for onEnd.  ret holds the callback in flight and the   *)
(* newParts it computed.                                                   *)
(***************************************************************************)
InFlight == ret.fn = "startTimer_callback"

\* lines 207-209: newParts, and setState when there are any
FireBegin ==
    /\ ~InFlight
    /\ \E t \in timers :
        /\ t.owner = "LiveRelativeTime"
        /\ Le(t.due, now)
        /\ timers' = Rearm(timers, t)
        /\ \E newParts \in {calculateRelativeTime(comp.props.timestamp, now, tz)} :
            IF newParts = Null
            THEN UNCHANGED <<comp, ret, hist>>
            ELSE /\ comp' = [comp EXCEPT !.timeString =
                                formatRelativeTime(comp.props.timestamp, comp.props, now, tz)]
                 /\ ret' = Call("startTimer_callback", newParts)
                 /\ hist' = [hist EXCEPT !.shownAt = now]
    /\ ev' = Event("setState", "LiveRelativeTime", FALSE)
    /\ UNCHANGED <<now, tz, argDateInput, argOptions, hook, steps, updates>>

\* lines 210-213: the test for onEnd, onEnd and stopTimer
FireEnd ==
    /\ InFlight
    /\ IF comp.props.onEnd /\ Le(ret.result.diffInSeconds, Secs(0))
       THEN \E r \in {stopTimer(comp, timers)} :
               /\ comp' = r.self
               /\ timers' = r.timers
               /\ hist' = [hist EXCEPT !.onEndCalls = @ + 1]
               /\ ev' = Event("fire", "LiveRelativeTime", TRUE)
       ELSE /\ ev' = Event("fire", "LiveRelativeTime", FALSE)
            /\ UNCHANGED <<comp, timers, hist>>
    /\ ret' = NoCall
    /\ UNCHANGED <<now, tz, argDateInput, argOptions, hook, steps, updates>>

\* the clock moves when no callback is running
AdvanceIdle == ~InFlight /\ Advance

NextFlight ==
    \/ Mount
    \/ AdvanceIdle
    \/ FireBegin
    \/ Unmount
    \/ FireEnd

SpecFlight == Init /\ [][NextFlight]_vars


(***************************************************************************)
(* Two sessions on one page: a LiveRelativeTime and a caller of            *)
(* useLiveRelativeTime, each mounted, rendered again, fired and unmounted  *)
(* on its own, over the one timer table of the host.                       *)
(***************************************************************************)
BesideOffsets == {1, -7200}
HookBesideOffsets == {-10, 61}

MountBeside ==
    /\ comp.phase = "none"
    /\ \E k \in BesideOffsets :
        MountWith(Props(DateObj(Add(MountTime, Secs(k))), Undefined, TRUE, NoOptions))
    /\ ev' = Event("mount", "LiveRelativeTime", FALSE)
    /\ UNCHANGED <<now, tz, pureVars, hook, steps, updates>>

HookMountBeside ==
    /\ hook.phase = "none"
    /\ \E k \in HookBesideOffsets, inline \in BOOLEAN :
        \E r \in {useEffect(useState(DateObj(Add(MountTime, Secs(k))), NoOptions,
                                     inline, now, tz),
                            timers, now, tz)} :
            /\ hook' = r.self
            /\ timers' = r.timers
    /\ ev' = Event("mount", "useLiveRelativeTime", FALSE)
    /\ UNCHANGED <<now, tz, pureVars, comp, steps, updates, hist>>

\* the parent renders the component again with another timestamp
UpdateBeside ==
    /\ comp.phase = "mounted"
    /\ updates < MaxUpdates
    /\ \E k \in BesideOffsets :
        \E props \in {[comp.props EXCEPT !.timestamp = DateObj(Add(MountTime, Secs(k)))]} :
            /\ props # comp.props
            /\ comp' = componentDidUpdate(comp.props, [comp EXCEPT !.props = props], now, tz)
            /\ hist' = [hist EXCEPT
                           !.shownAt = now,
                           !.wasFuture =
                               @ \/ IsFuture(calculateRelativeTime(props.timestamp, now, tz))]
    /\ ev' = Event("timestamp", "LiveRelativeTime", FALSE)
    /\ updates' = updates + 1
    /\ UNCHANGED <<now, tz, pureVars, hook, timers, steps>>

\* the calling component renders again, with the same or another timestamp
HookRenderBeside ==
    /\ hook.phase = "mounted"
    /\ updates < MaxUpdates
    /\ \E k \in HookBesideOffsets :
        \E timestamp \in {DateObj(Add(MountTime, Secs(k)))} :
            /\ \E r \in {render(hook, [hook EXCEPT !.timestamp = timestamp],
                                timers, now, tz)} :
                   /\ hook' = r.self
                   /\ timers' = r.timers
            /\ ev' = Event(IF timestamp # hook.timestamp THEN "timestamp" ELSE "update",
                           "useLiveRelativeTime", FALSE)
    /\ updates' = updates + 1
    /\ UNCHANGED <<now, tz, pureVars, comp, steps, hist>>

NextBeside ==
    \/ MountBeside
    \/ UpdateBeside
    \/ Unmount
    \/ Fire
    \/ HookMountBeside
    \/ HookRenderBeside
    \/ HookUnmount
    \/ HookFire
    \/ Advance

SpecBeside == Init /\ [][NextBeside]_vars


(***************************************************************************)
(* A caller of useLiveRelativeTime that stays mounted and is rendered      *)
(* again by its host whenever the host chooses, with the same timestamp    *)
(* and, when inline, a new options object each time.  The clock never      *)
(* stops while a timer is armed: it moves to the moment the timer is due   *)
(* or half a period on, and a timer that stays due fires.  The clock is    *)
(* followed until the first refresh.                                       *)
(***************************************************************************)
HookLiveOffsets == {-10, 61, -7200, -82800}

\* the string has been computed again since the mount
Refreshed == hist.shownAt # Null /\ Lt(MountTime, hist.shownAt)

HookMountLive ==
    /\ hook.phase = "none"
    /\ \E k \in HookLiveOffsets, inline \in BOOLEAN :
        \E r \in {useEffect(useState(DateObj(Add(MountTime, Secs(k))), NoOptions,
                                     inline, now, tz),
                            timers, now, tz)} :
            /\ hook' = r.self
            /\ timers' = r.timers
    /\ hist' = History(now, 0, FALSE)
    /\ ev' = Event("mount", "useLiveRelativeTime", FALSE)
    /\ UNCHANGED <<now, tz, pureVars, comp, steps, updates>>

\* the host renders the calling component again
HostRender ==
    /\ hook.phase = "mounted"
    /\ \E r \in {render(hook, hook, timers, now, tz)} :
           /\ hook' = r.self
           /\ timers' = r.timers
    /\ ev' = Event("update", "useLiveRelativeTime", FALSE)
    /\ UNCHANGED <<now, tz, pureVars, comp, steps, updates, hist>>

TickLive ==
    /\ hook.phase = "mounted"
    /\ ~Refreshed
    /\ \A t \in timers : Lt(now, t.due)
    /\ \E t \in timers :
        \E target \in {t.due, AddMs(now, t.interval \div 2)} :
            /\ Le(target, t.due)
            /\ now' = target
    /\ ev' = Event("advance", "none", FALSE)
    /\ UNCHANGED <<tz, pureVars, comp, hook, timers, steps, updates, hist>>

NextHookLive ==
    \/ HookMountLive
    \/ HostRender
    \/ HookFire
    \/ TickLive

\* HookFire is enabled exactly when a timer of the hook is due
HookTimerDue == \E t \in timers : t.owner = "useLiveRelativeTime" /\ Le(t.due, now)

\* the clock is weakly fair, and so is HookFire: WF_vars(HookFire) with its
\* enabling condition written out
SpecHookLive ==
    /\ Init
    /\ [][NextHookLive]_vars
    /\ WF_vars(TickLive)
    /\ ([]<>~HookTimerDue \/ []<><<HookFire>>_vars)


(***************************************************************************)
(* Properties of the pure functions (checked under SpecPure).              *)
(***************************************************************************)
\* the offset of the drawn dateInput, when it parses
ArgDate == parseDate(argDateInput, tz)
ArgDiff == Sub(ArgDate.time, now)
IntAbs(v) == IF v < 0 THEN -v ELSE v

C1_Units == <<
    [unit |-> "year",   seconds |-> 31536000],
    [unit |-> "month",  seconds |-> 2592000],
    [unit |-> "week",   seconds |-> 604800],
    [unit |-> "day",    seconds |-> 86400],
    [unit |-> "hour",   seconds |-> 3600],
    [unit |-> "minute", seconds |-> 60],
    [unit |-> "second", seconds |-> 1] >>

\* v is an integer nearest to d / seconds: |d - v * seconds| <= seconds / 2
C1_Nearest(v, d, seconds) ==
    LET a == MathAbs(T(d.s - v * seconds, d.ms))
    IN  2 * a.s + (IF a.ms = 0 THEN 0 ELSE IF a.ms <= 500 THEN 1 ELSE 2) <= seconds

\* C1: for every parseable input and every current instant,
\* calculateRelativeTime returns the first unit, in the order year, month,
\* week, day, hour, minute, second, whose rounded quotient
\* diffInSeconds / unitSeconds has absolute value >= 1, with that rounded
\* quotient as value; when no unit qualifies it returns value 0 and unit
\* "second"; -125 s gives (-2, minute), -300 s (-5, minute), +7200 s
\* (2, hour).  Rounded means: an integer nearest to the quotient (which of
\* the two nearest integers a quotient of exactly k + 1/2 goes to is C2).
C1_FirstQualifyingUnit ==
    (ret.fn = "calculateRelativeTime" /\ ArgDate # Null) =>
        /\ ret.result # Null
        /\ ret.result.diffInSeconds = ArgDiff
        /\ IF IsNaN(ArgDiff)
           THEN ret.result.value = 0 /\ ret.result.unit = "second"
           ELSE \E i \in 1..Len(C1_Units) :
                   /\ ret.result.unit = C1_Units[i].unit
                   /\ \A j \in 1..(i - 1) : C1_Nearest(0, ArgDiff, C1_Units[j].seconds)
                   /\ C1_Nearest(ret.result.value, ArgDiff, C1_Units[i].seconds)
                   /\ \/ IntAbs(ret.result.value) >= 1
                      \/ i = Len(C1_Units) /\ ret.result.value = 0
        /\ ArgDiff = Secs(-125) => ret.result.value = -2 /\ ret.result.unit = "minute"
        /\ ArgDiff = Secs(-300) => ret.result.value = -5 /\ ret.result.unit = "minute"
        /\ ArgDiff = Secs(7200) => ret.result.value = 2 /\ ret.result.unit = "hour"

C1_Witness ==
    /\ ret.fn = "calculateRelativeTime"
    /\ argDateInput.kind = "date"
    /\ ret.result = Parts(-2, "minute", Secs(-125))

\* round half away from zero: sign(q) * floor(|q| + 1/2)
C2_RoundHalfAway(d, seconds) ==
    LET a == MathAbs(d)
        k == a.s \div seconds
        r == a.s % seconds
        m == IF 2 * r + (2 * a.ms) \div 1000 >= seconds THEN k + 1 ELSE k
    IN  IF d.s < 0 THEN -m ELSE m

\* C2: the quotient diffInSeconds / unitSeconds is rounded half away from
\* zero for negative as for positive offsets (1.5 to 2, -1.5 to -2, -0.5 to
\* -1, so that the unit qualifies): the unit returned is the first whose
\* quotient so rounded is not 0, and the value is that rounded quotient.
C2_RoundsHalfAwayFromZero ==
    (ret.fn = "calculateRelativeTime" /\ ArgDate # Null /\ ~IsNaN(ArgDiff)) =>
        \E i \in 1..Len(C1_Units) :
            /\ ret.result.unit = C1_Units[i].unit
            /\ \A j \in 1..(i - 1) : C2_RoundHalfAway(ArgDiff, C1_Units[j].seconds) = 0
            /\ ret.result.value = C2_RoundHalfAway(ArgDiff, C1_Units[i].seconds)

\* C3: for every parseable input and every threshold that is supplied,
\* formatRelativeTime returns the absolute-date string of the parsed
\* instant exactly when abs(diffInSeconds) > threshold and the relative
\* phrase for (value, unit) otherwise; with no threshold, always the phrase.
C3_ThresholdDecision ==
    (/\ ret.fn = "formatRelativeTime"
     /\ ArgDate # Null
     /\ Default(argOptions.locale, Str("en")).v \in WellFormedLocales) =>
        LET parts == calculateRelativeTime(argDateInput, now, tz)
            t == argOptions.threshold
        IN  IF t.kind = "number" /\ Gt(MathAbs(ArgDiff), Secs(t.v))
            THEN /\ ret.result.kind = "absolute"
                 /\ ret.result.time = ArgDate.time
                 /\ ret.result.options = argOptions.absoluteFormatOptions
            ELSE /\ ret.result.kind = "relative"
                 /\ ret.result.value = parts.value
                 /\ ret.result.unit = parts.unit

ValidCivil(y, m, d) == m \in 1..12 /\ d \in 1..DaysInMonth(y, m)

\* one of the two date patterns reads cs as a date of the calendar
C4_PatternResolves(cs) ==
    \/ /\ yyyy_mm_dd(cs)
       /\ ValidCivil(NumOf(SubSeq(cs, 1, 4)), NumOf(SubSeq(cs, 6, 7)), NumOf(SubSeq(cs, 9, 10)))
    \/ /\ mm_dd_yyyy(cs)
       /\ ValidCivil(NumOf(SubSeq(cs, 7, 10)), NumOf(SubSeq(cs, 1, 2)), NumOf(SubSeq(cs, 4, 5)))

C4_Unparseable(x) ==
    \/ x.kind \in {"null", "undefined", "object", "boolean"}
    \/ x.kind = "string" /\ ~C4_PatternResolves(x.chars) /\ IsNaN(HostParse(x.chars, tz))

\* C4: for an input that is null, undefined, of a type other than
\* Date/number/string, or a string that neither date pattern nor the host
\* parser resolves to a valid instant, parseDate, calculateRelativeTime and
\* formatRelativeTime each return null, and none throws.
C4_UnparseableGivesNull ==
    (ret.fn \in {"parseDate", "calculateRelativeTime", "formatRelativeTime"}
        /\ C4_Unparseable(argDateInput)) => ret.result = Null

C4_Witness ==
    /\ ret.fn = "formatRelativeTime"
    /\ argDateInput = StringInput(<<"2", "0", "2", "5", "-", "9", "9", "-", "9", "9">>)
    /\ argOptions.locale = Str("en_US")
    /\ ret.result = Null

\* C5: for every numeric input n, parseDate returns the instant n * 1000 ms
\* when the decimal digit count of abs(n) is below 13 and the instant n ms
\* otherwise.
C5_DigitCountHeuristic ==
    (ret.fn = "parseDate" /\ argDateInput.kind = "number" /\ ~IsSpecial(argDateInput.num)) =>
        LET n == argDateInput.num
            digits == Len(n.ip) + Len(n.fp)
        IN  ret.result = DateObj(DateOfNumber(n, IF digits < 13 THEN 1000 ELSE 1))


\* the shapes the claim names: one separator, used twice
C6_ShapeYMD(cs) == yyyy_mm_dd(cs) /\ cs[5] = cs[8]
C6_ShapeMDY(cs) == mm_dd_yyyy(cs) /\ cs[3] = cs[6]

\* local midnight of the civil date y-m-d, null when the calendar has no such date
C6_LocalMidnight(y, m, d) ==
    IF ValidCivil(y, m, d)
    THEN DateObj(T(DaysFromCivil(y, m, d) * 86400 - tz * 60, 0))
    ELSE Null

\* C6: for a textual input parseDate applies its rules in a fixed order,
\* first match wins: (1) YYYY-MM-DD or YYYY/MM/DD is local midnight of year
\* Y, month M, day D; (2) otherwise MM/DD/YYYY or MM-DD-YYYY is local
\* midnight of that date in US field order; (3) only when neither shape
\* matches is the original string handed to the host date parser.
C6_StringPrecedence ==
    (ret.fn = "parseDate" /\ argDateInput.kind = "string") =>
        LET cs == argDateInput.chars
            host == HostParse(cs, tz)
        IN  /\ C6_ShapeYMD(cs) =>
                ret.result = C6_LocalMidnight(NumOf(SubSeq(cs, 1, 4)),
                                 NumOf(SubSeq(cs, 6, 7)), NumOf(SubSeq(cs, 9, 10)))
            /\ (~C6_ShapeYMD(cs) /\ C6_ShapeMDY(cs)) =>
                ret.result = C6_LocalMidnight(NumOf(SubSeq(cs, 7, 10)),
                                 NumOf(SubSeq(cs, 1, 2)), NumOf(SubSeq(cs, 4, 5)))
            /\ stringToParse(cs) = cs => (~C6_ShapeYMD(cs) /\ ~C6_ShapeMDY(cs))
            /\ (~yyyy_mm_dd(cs) /\ ~mm_dd_yyyy(cs)) =>
                /\ stringToParse(cs) = cs
                /\ ret.result = IF IsNaN(host) THEN Null ELSE DateObj(host)

C6_Witness ==
    /\ ret.fn = "parseDate"
    /\ argDateInput = StringInput(<<"0", "7", "/", "1", "8", "/", "2", "0", "2", "5">>)
    /\ tz = 330
    /\ ret.result = DateObj(T(1752777000, 0))

\* C7: _getDynamicInterval returns 1000 ms when abs(offset) < 60,
\* 60000 ms when 60 <= abs(offset) < 3600, 3600000 ms when
\* 3600 <= abs(offset) < 86400, and a non-positive value (no further
\* refresh) when abs(offset) >= 86400.
C7_PolicyBands ==
    (ret.fn = "_getDynamicInterval" /\ ~IsNaN(ArgDiff)) =>
        LET a == MathAbs(ArgDiff)
            ms == ret.result.v
        IN  /\ Lt(a, Secs(60)) => ms = 1000
            /\ (Le(Secs(60), a) /\ Lt(a, Secs(3600))) => ms = 60000
            /\ (Le(Secs(3600), a) /\ Lt(a, Secs(86400))) => ms = 3600000
            /\ Le(Secs(86400), a) => ms <= 0
            /\ a = Secs(59) => ms = 1000
            /\ a \in {Secs(60), Secs(61)} => ms = 60000
            /\ a \in {Secs(3600), Secs(3601)} => ms = 3600000
            /\ a \in {Secs(86400), Secs(90000)} => ms <= 0

C7_Witness ==
    /\ ret.fn = "_getDynamicInterval"
    /\ ArgDiff = Secs(-86400)
    /\ ret.result = Num(-1)

(***************************************************************************)
(* Properties of the bindings (checked under Spec).                        *)
(***************************************************************************)
\* the phrase Intl.RelativeTimeFormat('en', long, auto) makes of (value, unit)
Phrase(value, unit) ==
    RelativeTimeFormat(Str("en"), Str("long"), Str("auto"), value, unit)

MountedAt(k) ==
    /\ comp.phase = "mounted"
    /\ updates = 0
    /\ comp.props.timestamp = DateObj(Add(MountTime, Secs(k)))
    /\ comp.props.threshold = Undefined

\* C8: every fire of a mounted binding's timer leaves the displayed string
\* equal to formatRelativeTime(current timestamp, current options) evaluated
\* at the time of the fire, for the component and for the hook; a component
\* showing '10 seconds ago' shows '11 seconds ago' after one 1000 ms fire.
C8_FireSetsDisplay ==
    /\ (ev.type = "fire" /\ ev.owner = "LiveRelativeTime")
        => comp.timeString =
               formatRelativeTime(comp.props.timestamp, comp.props, now, tz)
    /\ (ev.type = "fire" /\ ev.owner = "useLiveRelativeTime")
        => hook.timeString =
               formatRelativeTime(hook.timestamp, hook.options, now, tz)
    /\ (MountedAt(-10) /\ comp.props.updateInterval \in {Undefined, Num(1000)})
        => /\ now = MountTime => comp.timeString = Phrase(-10, "second")
           /\ (ev.type = "fire" /\ now = AddMs(MountTime, 1000))
                => comp.timeString = Phrase(-11, "second")

\* a fire of the hook's timer after the caller changed the options: the
\* string is the absolute date the new threshold asks for
C8_Witness ==
    /\ ev.type = "fire" /\ ev.owner = "useLiveRelativeTime"
    /\ updates = 1
    /\ ~hook.inline
    /\ hook.options.threshold = Num(3600)
    /\ hook.timeString.kind = "absolute"

\* the policy delay the claim quotes, in milliseconds (-1: none)
C9_PolicyDelay(absOffset) ==
    IF Lt(absOffset, Secs(60)) THEN 1000
    ELSE IF Lt(absOffset, Secs(3600)) THEN 60000
    ELSE IF Lt(absOffset, Secs(86400)) THEN 3600000
    ELSE -1

C9_Armed(handle) == handle # Null /\ \E t \in timers : t.id = handle.id

C9_ArmedAs(handle, timestamp, updateInterval) ==
    LET date      == parseDate(timestamp, tz)
        effective == IF updateInterval # Undefined THEN updateInterval.v
                     ELSE C9_PolicyDelay(MathAbs(Sub(date.time, now)))
    IN  /\ C9_Armed(handle) <=> (date # Null /\ effective > 0)
        /\ C9_Armed(handle)
            => /\ Cardinality(timers) = 1
               /\ \A t \in timers :
                    t.interval = effective /\ t.due = AddMs(now, effective)
        /\ (date # Null /\ updateInterval = Undefined
                /\ Le(Secs(86400), MathAbs(Sub(date.time, now))))
            => timers = {}

\* C9: right after a mount a timer is armed iff the timestamp parses and the
\* effective interval (updateInterval when the component has one, else the
\* policy delay for the offset at mount) is positive, and its period is that
\* interval; a component mounted 2 hours in the past keeps its display until
\* 3600000 ms have passed and changes it then; at abs(offset) >= 86400 s
\* without updateInterval no timer is armed.
C9_TimerAfterMount ==
    /\ (ev.type = "mount" /\ ev.owner = "LiveRelativeTime")
        => C9_ArmedAs(comp.timer, comp.props.timestamp, comp.props.updateInterval)
    /\ (ev.type = "mount" /\ ev.owner = "useLiveRelativeTime")
        => C9_ArmedAs(hook.cleanup, hook.timestamp, Undefined)
    /\ (MountedAt(-7200) /\ comp.props.updateInterval = Undefined)
        => /\ Lt(now, AddMs(MountTime, 3600000))
                => comp.timeString = Phrase(-2, "hour")
           /\ (ev.type = "fire" /\ now = AddMs(MountTime, 3600000))
                => comp.timeString = Phrase(-3, "hour")

\* the component mounted 2 hours in the past, 3600000 ms later
C9_Witness ==
    /\ MountedAt(-7200) /\ comp.props.updateInterval = Undefined
    /\ ev.type = "fire"
    /\ now = AddMs(MountTime, 3600000)
    /\ comp.timeString = Phrase(-3, "hour")

\* C10: whenever LiveRelativeTime has an updateInterval, its refresh period is
\* that value whatever the offset of the timestamp: a timer the mounted
\* component holds has the period updateInterval, and a mount with a parseable
\* timestamp and a positive updateInterval arms one even at abs(offset) >=
\* 86400 s.
C10_UpdateIntervalIsThePeriod ==
    /\ (comp.phase = "mounted" /\ comp.props.updateInterval # Undefined)
        => \A t \in timers : t.interval = comp.props.updateInterval.v
    /\ (ev.type = "mount" /\ ev.owner = "LiveRelativeTime"
            /\ comp.props.updateInterval # Undefined
            /\ comp.props.updateInterval.v > 0
            /\ parseDate(comp.props.timestamp, tz) # Null)
        => C9_Armed(comp.timer)

\* the binding's timestamp and its offset from the clock
BoundTimestamp == IF comp.phase = "mounted" THEN comp.props.timestamp ELSE hook.timestamp
BoundOffset == Sub(parseDate(BoundTimestamp, tz).time, now)

\* C11: while a binding is mounted without updateInterval and the current
\* abs(offset) is below 86400 s, the displayed string was computed no longer
\* ago than the policy delay for the current offset.  Stated for sessions
\* whose arguments never changed and whose onEnd was never called, at moments
\* when no timer is due and waiting to fire.
C11_NeverStale ==
    (/\ comp.phase = "mounted" \/ hook.phase = "mounted"
     /\ \A t \in timers : Lt(now, t.due)
     /\ comp.phase = "mounted" => comp.props.updateInterval = Undefined
     /\ updates = 0
     /\ hist.onEndCalls = 0
     /\ parseDate(BoundTimestamp, tz) # Null
     /\ Lt(MathAbs(BoundOffset), Secs(86400)))
        => Le(Sub(now, hist.shownAt),
              T(C9_PolicyDelay(MathAbs(BoundOffset)) \div 1000, 0))

\* C12: in a session of LiveRelativeTime onEnd is called at most once, and
\* once it has been called the session holds no timer, so that nothing fires
\* again; with a timestamp 1 s in the future, 2 s of timer time give exactly
\* one call.
C12_OnEndAtMostOnce ==
    /\ hist.onEndCalls <= 1
    /\ hist.onEndCalls = 1 => (timers = {} /\ comp.timer = Null)
    /\ (/\ MountedAt(1)
        /\ comp.props.onEnd
        /\ comp.props.updateInterval = Undefined
        /\ Le(AddMs(MountTime, 2000), now))
        => hist.onEndCalls = 1

\* the timestamp 1 s in the future, 2 s after the mount
C12_Witness ==
    /\ MountedAt(1)
    /\ comp.props.onEnd
    /\ comp.props.updateInterval = Undefined
    /\ now = AddMs(MountTime, 2000)
    /\ hist.onEndCalls = 1

\* C13: onEnd is called on a fire only if diffInSeconds was positive at an
\* earlier point of the session and is <= 0 at that fire; a session whose
\* timestamp was in the past at mount and never changed never calls onEnd.
C13_OnlyWhenFutureIsReached ==
    /\ (ev.type = "fire" /\ ev.onEnd)
        => /\ hist.wasFuture
           /\ Le(Sub(parseDate(comp.props.timestamp, tz).time, now), Secs(0))
    /\ (comp.phase = "mounted" /\ updates = 0 /\ ~hist.wasFuture)
        => hist.onEndCalls = 0

\* C14: a LiveRelativeTime that stays mounted with onEnd and a timestamp that
\* is in the future at mount eventually calls onEnd, whatever the distance of
\* the timestamp at mount, given that time passes and armed timers fire.
C14_OnEndEventually ==
    (comp.phase = "mounted" /\ comp.props.onEnd /\ hist.wasFuture)
        ~> (hist.onEndCalls > 0)

\* C15: after the timestamp prop of a mounted LiveRelativeTime changed, the
\* displayed string is formatRelativeTime(new timestamp, current props),
\* without a timer fire; re-rendered with a timestamp 10 s in the past the
\* display is '10 seconds ago'.
C15_TimestampChangeShows ==
    (ev.type = "timestamp" /\ ev.owner = "LiveRelativeTime")
        => /\ comp.timeString =
                formatRelativeTime(comp.props.timestamp, comp.props, now, tz)
           /\ (/\ comp.props.timestamp = DateObj(Add(MountTime, Secs(-10)))
               /\ comp.props.threshold = Undefined
               /\ now = MountTime)
                => comp.timeString = Phrase(-10, "second")

\* a component that holds no timer is given the timestamp 10 s in the past
C15_Witness ==
    /\ ev.type = "timestamp" /\ ev.owner = "LiveRelativeTime"
    /\ timers = {}
    /\ comp.props.timestamp = DateObj(Add(MountTime, Secs(-10)))
    /\ now = MountTime
    /\ comp.timeString = Phrase(-10, "second")

\* C16: after a render of useLiveRelativeTime with a new timestamp or new
\* options the returned string is formatRelativeTime of the new arguments,
\* whether or not a timer is armed for them.
C16_HookRederives ==
    (ev.type \in {"timestamp", "options"} /\ ev.owner = "useLiveRelativeTime")
        => hook.timeString = formatRelativeTime(hook.timestamp, hook.options, now, tz)

Unmounted == comp.phase = "unmounted" \/ hook.phase = "unmounted"

\* C17: an unmounted binding has no outstanding timer and holds no handle,
\* in whatever state it was unmounted, and from then on no step changes its
\* displayed string or adds a call of onEnd.
C17_UnmountCancels ==
    /\ [](Unmounted => timers = {} /\ comp.timer = Null /\ hook.cleanup = Null)
    /\ [][Unmounted => /\ comp'.timeString = comp.timeString
                       /\ hook'.timeString = hook.timeString
                       /\ hist'.onEndCalls = hist.onEndCalls]_vars

\* the component was unmounted with its one-second timer armed, and the
\* clock has passed the moment that timer was due without a refresh
C17_Witness ==
    /\ comp.phase = "unmounted"
    /\ ev.type = "advance"
    /\ comp.props.timestamp = DateObj(Add(MountTime, Secs(-10)))
    /\ comp.props.updateInterval = Undefined
    /\ updates = 0
    /\ Le(AddMs(MountTime, 1000), now)
    /\ comp.timeString = Phrase(-10, "second")

\* C18: every non-null result of parseDate is a valid instant (its time value
\* is not NaN), also for an invalid Date object and a NaN or infinite number;
\* for an input that has no valid instant calculateRelativeTime and
\* formatRelativeTime return null.
C18_ParsedIsValid ==
    /\ (ret.fn = "parseDate" /\ ret.result # Null) => ~IsNaN(ret.result.time)
    /\ (/\ ret.fn \in {"calculateRelativeTime", "formatRelativeTime"}
        /\ (ArgDate = Null \/ IsNaN(ArgDate.time))) => ret.result = Null

\* C19: in every result of calculateRelativeTime a positive value comes with
\* a positive diffInSeconds and a negative value with a negative one; the
\* value is 0 only with unit "second".
C19_SignMatches ==
    (ret.fn = "calculateRelativeTime" /\ ret.result # Null) =>
        /\ ret.result.value > 0 => Gt(ret.result.diffInSeconds, Secs(0))
        /\ ret.result.value < 0 => Lt(ret.result.diffInSeconds, Secs(0))
        /\ ret.result.value = 0 => ret.result.unit = "second"

\* 90000 s in the past: one day ago, a negative value
C19_Witness ==
    /\ ret.fn = "calculateRelativeTime"
    /\ ret.result # Null
    /\ ret.result.diffInSeconds = Secs(-90000)
    /\ ret.result.value = -1
    /\ ret.result.unit = "day"

\* C20: whatever the props and the state, LiveRelativeTime renders
\* children(timeString) and nothing else when children is a function, and
\* otherwise an element whose text is prefix, timeString and suffix in this
\* order (a null or absent part showing nothing).
C20_RenderTwoWay ==
    (ret.fn \in {"render", "throw"}) =>
        IF comp.props.children.kind = "function"
        THEN ret.result = Applied(comp.timeString)
        ELSE /\ ret.result.kind = "span"
             /\ ret.result.text =
                    Text(<<comp.props.prefix, comp.timeString, comp.props.suffix>>)

\* C21: parseDate returns a Date argument as it is, and parseDate applied to
\* any non-null result of parseDate returns that result again.
C21_ParseDateIdempotent ==
    (ret.fn = "parseDate" /\ ret.result # Null) =>
        /\ argDateInput.kind = "date" => ret.result = argDateInput
        /\ parseDate(ret.result, tz) = ret.result

\* a Date with a fraction of a second has been handed to parseDate
C21_Witness ==
    /\ ret.fn = "parseDate"
    /\ argDateInput.kind = "date"
    /\ ~IsNaN(argDateInput.time)
    /\ argDateInput.time.ms # 0
    /\ ret.result = argDateInput

\* C22: a LiveRelativeTime without updateInterval and onEnd and a
\* useLiveRelativeTime hook that were given the same timestamp and options
\* and have seen the same events show the same string whenever no timer of
\* either is due.
C22_BindingsEquivalent ==
    (/\ comp.phase = "mounted" /\ hook.phase = "mounted"
     /\ \A t \in timers : Lt(now, t.due))
        => comp.timeString = hook.timeString

\* C23: right after a timer fire of a binding without updateInterval (and
\* without a call of onEnd, which stops the session) the next fire is due
\* after the policy delay for the offset at this fire; at abs(offset) >=
\* 86400 s no timer is left.
C23_DelayRederivedAtFire ==
    (/\ ev.type = "fire"
     /\ ~ev.onEnd
     /\ ev.owner = "LiveRelativeTime" => comp.props.updateInterval = Undefined
     /\ parseDate(BoundTimestamp, tz) # Null)
        => IF C9_PolicyDelay(MathAbs(BoundOffset)) > 0
           THEN /\ timers # {}
                /\ \A t \in timers :
                       t.due = AddMs(now, C9_PolicyDelay(MathAbs(BoundOffset)))
           ELSE timers = {}

\* C24: right after the timestamp or the options of a mounted binding have
\* changed, the binding's timer is the one a mount with the new arguments
\* at this moment would arm: one timer with the delay for the new offset,
\* due that delay from now, or none; a binding without a timer gets one when
\* the new timestamp is less than 86400 s away.
C24_ChangeRearms ==
    /\ (ev.type \in {"timestamp", "options"} /\ ev.owner = "LiveRelativeTime")
        => C9_ArmedAs(comp.timer, comp.props.timestamp, comp.props.updateInterval)
    /\ (ev.type \in {"timestamp", "options"} /\ ev.owner = "useLiveRelativeTime")
        => C9_ArmedAs(hook.cleanup, hook.timestamp, Undefined)

\* C25: in every reachable state a binding session has at most one
\* outstanding timer, and that timer is the one whose handle the session
\* holds (this.timer of the component, the timer of the hook's cleanup).
C25_AtMostOneTimer ==
    /\ Cardinality(timers) <= 1
    /\ \A t \in timers :
        \/ t.owner = "LiveRelativeTime" /\ comp.timer = Timeout(t.id)
        \/ t.owner = "useLiveRelativeTime" /\ hook.cleanup = Timeout(t.id)

\* a hook called with an inline options object and a timestamp 2 hours in the
\* past has been rendered again after some time: its effect has replaced the
\* timer armed at mount by one due an hour from now
C25_Witness ==
    /\ ev.type = "update" /\ ev.owner = "useLiveRelativeTime"
    /\ hook.inline
    /\ hook.timestamp = DateObj(Add(MountTime, Secs(-7200)))
    /\ Lt(MountTime, now)
    /\ Cardinality(timers) = 1
    /\ \A t \in timers : t.due = AddMs(now, 3600000)

\* the session of the component has been stopped: by unmount, or by the stop
\* that follows onEnd
Stopped == comp.phase = "unmounted" \/ hist.onEndCalls > 0

\* C26: once the session of a LiveRelativeTime has been stopped, no step of
\* a timer callback, one already running when the stop happened included,
\* changes the displayed string or the timer handle or calls onEnd.
C26_StoppedCallbackIsNoOp ==
    [][Stopped => /\ comp'.timeString = comp.timeString
                  /\ comp'.timer = comp.timer
                  /\ hist'.onEndCalls = hist.onEndCalls]_vars

\* stopTimer on what an operation left behind
StopAgain(r) == stopTimer(r.self, r.timers)

\* C27: in every state a LiveRelativeTime can be in, stopTimer on a session
\* without a timer (never armed, stopped after onEnd, unmounted) changes
\* nothing, and stopTimer twice leaves what stopTimer once leaves.
C27_StopIdempotent ==
    comp.phase # "none" =>
        /\ comp.timer = Null => stopTimer(comp, timers) = Result(comp, timers)
        /\ StopAgain(stopTimer(comp, timers)) = stopTimer(comp, timers)

\* a component that was stopped after onEnd and unmounted afterwards: its
\* componentWillUnmount has run stopTimer on the stopped session
C27_Witness ==
    /\ comp.phase = "unmounted"
    /\ ev.type = "unmount"
    /\ hist.onEndCalls = 1
    /\ comp.timer = Null
    /\ comp.timeString # Null

\* the timers a binding has armed
TimersOf(owner) == {t \in timers : t.owner = owner}

\* C28: an event on one binding (mount, render with new arguments, timer
\* fire with or without onEnd, unmount) leaves the other binding's displayed
\* string, timer handle and timer, and the number of onEnd calls that is not
\* its own, as they were.
C28_SessionsIndependent ==
    [][/\ ev'.owner = "useLiveRelativeTime"
           => /\ comp' = comp
              /\ TimersOf("LiveRelativeTime")' = TimersOf("LiveRelativeTime")
              /\ hist'.onEndCalls = hist.onEndCalls
       /\ ev'.owner = "LiveRelativeTime"
           => /\ hook' = hook
              /\ TimersOf("useLiveRelativeTime")' = TimersOf("useLiveRelativeTime")]_vars

\* the component has been unmounted while the hook beside it holds a timer
C28_Witness ==
    /\ ev.type = "unmount" /\ ev.owner = "LiveRelativeTime"
    /\ hook.phase = "mounted"
    /\ hook.cleanup # Null
    /\ TimersOf("useLiveRelativeTime") # {}
    /\ TimersOf("LiveRelativeTime") = {}

\* C29: a mounted useLiveRelativeTime hook whose timestamp parses and was
\* less than 86400 s away at mount has its string refreshed by a timer fire
\* at some later moment, however the host schedules its renders.
C29_HookEventuallyRefreshes ==
    (hook.phase = "mounted" /\ hook.timeString # Null) ~> Refreshed

\* the largest magnitude the claim allows a value of the unit
C30_Bound(unit) ==
    IF unit \in {"second", "minute"} THEN 30
    ELSE IF unit = "hour" THEN 12
    ELSE IF unit = "day" THEN 3
    ELSE IF unit = "week" THEN 2
    ELSE 6

\* C30: in every result of calculateRelativeTime whose unit is not 'year'
\* the magnitude of the value is at most 30 for 'second' and 'minute', 12 for
\* 'hour', 3 for 'day', 2 for 'week' and 6 for 'month'.
C30_ValueBoundedByUnit ==
    (ret.fn = "calculateRelativeTime" /\ ret.result # Null /\ ret.result.unit # "year")
        => IntAbs(ret.result.value) <= C30_Bound(ret.result.unit)

\* three and a half days in the past: the week rounds to 0 and the day to -3
C30_Witness ==
    /\ ret.fn = "calculateRelativeTime"
    /\ ret.result # Null
    /\ ret.result.diffInSeconds = Secs(-302400)
    /\ ret.result.unit = "day"
    /\ ret.result.value = -3


C32_NullFireKeepsSession ==
    [][(Fire /\ calculateRelativeTime(comp.props.timestamp, now, tz) = Null)
          => /\ comp' = comp
             /\ hist'.onEndCalls = hist.onEndCalls
             /\ ~ev'.onEnd
             /\ {<<t.id, t.owner, t.interval>> : t \in timers'}
                    = {<<t.id, t.owner, t.interval>> : t \in timers}
             /\ \E t \in timers' : comp'.timer = Timeout(t.id)]_vars

\* the component's timer has just fired on an unparseable timestamp, in a
\* session that has an onEnd and whose timer is still armed
C32_Witness ==
    /\ ev = Event("fire", "LiveRelativeTime", FALSE)
    /\ calculateRelativeTime(comp.props.timestamp, now, tz) = Null
    /\ comp.props.onEnd
    /\ comp.timer # Null
    /\ \E t \in timers : comp.timer = Timeout(t.id)

=============================================================================
